---- MODULE Spec2Model ----
(***************************************************************************)
(* A model of src/main.py: one invocation of the public IP checker is a    *)
(* sequence of steps over two files (PreviousIP.txt, heartbeat.json), the  *)
(* wall clock, two address sources and the Apprise notifier.               *)
(*                                                                         *)
(* Strings the code inspects character by character (response bodies, the  *)
(* address file, notification bodies) are sequences of one-character       *)
(* strings; the fixed parts of a message are single tokens.                *)
(***************************************************************************)
EXTENDS Integers, Sequences, FiniteSets, TLC

VARIABLES clock, sched, runs, prev_ip_file, heartbeat_file, inv, checkins_sent,
          history

vars == <<clock, sched, runs, prev_ip_file, heartbeat_file, inv, checkins_sent,
          history>>

(* ------------------------------ bounds -------------------------------- *)

\* Invocations of main() in one behaviour.
MaxInvocations == 3

\* Invocations of main() in one behaviour of the specification with fairness.
MaxFairInvocations == 2

\* Invocations of main() in one behaviour of the specification in which
\* invocations overlap.
MaxOverlappingInvocations == 2

(* ------------------------- program constants -------------------------- *)

Timeout == 5
SleepSeconds == 90
VerboseWindow == 300
SecondsPerDay == 86400
HeartbeatDays == 30

(* ------------------------------ inputs -------------------------------- *)

\* Invocations that may be in progress; the sequential specification runs
\* them all as invocation 1.
Procs == {1, 2}

\* Seconds between the starts of two invocations (the scheduler's choice):
\* an hour, one second short of the heartbeat window, exactly the window.
Delays == {3600, HeartbeatDays * SecondsPerDay - 1, HeartbeatDays * SecondsPerDay}

\* Seconds one HTTP request may take: at once, or the whole timeout.
RequestTimes == {0, Timeout}

Whitespace == {" ", "\n", "\t"}

\* Response bodies of the address sources.
Bodies == { <<>>, <<"a">>, <<" ", "a", "\n">>, <<"b">> }

\* What requests.get can end in: an exception raised by the transport, or a
\* response with a status and a body.
Outcomes ==
    { [kind |-> k, status |-> 0, body |-> <<>>] : k \in {"Timeout", "ConnectionError"} }
    \cup { [kind |-> "response", status |-> s, body |-> b] : s \in {200, 503}, b \in Bodies }

(* --------------------------- pure functions --------------------------- *)

RECURSIVE LStrip(_)
LStrip(s) ==
    IF s # <<>> /\ Head(s) \in Whitespace THEN LStrip(Tail(s)) ELSE s

RECURSIVE RStrip(_)
RStrip(s) ==
    IF s # <<>> /\ s[Len(s)] \in Whitespace
    THEN RStrip(SubSeq(s, 1, Len(s) - 1))
    ELSE s

\* Strip with a fault: only the leading whitespace removed.
StripLeadingOnly(s) == LStrip(s)

\* str.strip()
Strip(s) == RStrip(LStrip(s))

\* response.raise_for_status(): an HTTPError for a 4xx or 5xx status.
RaisesForStatus(status) == status >= 400 /\ status < 600

\* Whether the try block around one requests.get returns normally.
Succeeds(o) == o.kind = "response" /\ ~RaisesForStatus(o.status)

\* The value get_public_ip returns: None, or a string.
Unavailable == [ok |-> FALSE, text |-> <<>>]
Resolved(s) == [ok |-> TRUE, text |-> s]

\* FileOf with a fault: a line end after the text.
FileOfLine(c) == [exists |-> TRUE, content |-> c \o <<"\n">>]

\* A file that does not exist, and a file holding `c`.
NoFile == [exists |-> FALSE, content |-> <<>>]
FileOf(c) == [exists |-> TRUE, content |-> c]

NoRecord == [start_time |-> 0, last_ip_change |-> 0, ip_change_count |-> 0]
\* heartbeat.json: whether it exists, whether it holds a complete JSON
\* document, and the record that document gives.
NoHeartbeatFile == [exists |-> FALSE, complete |-> FALSE, data |-> NoRecord]

\* A file as open(path, "w") leaves it when nothing is written after it:
\* opening for writing truncates (lines 59 and 152).
Truncated == FileOf(<<>>)
TruncatedHeartbeatFile == [exists |-> TRUE, complete |-> FALSE, data |-> NoRecord]

\* A write that raises OSError: when open() raises (permissions) the file is
\* as it was, when the write or the close raises (disk full) the file is as
\* open() left it.
failed_write(file, at_open, truncated) == IF at_open THEN file ELSE truncated

\* json.load(f) of line 44 raises JSONDecodeError on a file that holds no
\* complete document; main() does not catch it.
AfterLoad(file) ==
    IF file.exists /\ ~file.complete THEN "fatal" ELSE "read_now"

\* load_heartbeat with a fault: the fresh record starts at the epoch.
load_heartbeat_from_epoch(file, t) ==
    IF file.exists
    THEN file.data
    ELSE [start_time |-> 0, last_ip_change |-> 0, ip_change_count |-> 0]

\* load_heartbeat(path) called at time t.
load_heartbeat(file, t) ==
    IF file.exists
    THEN file.data
    ELSE [start_time |-> t, last_ip_change |-> t, ip_change_count |-> 0]

\* save_heartbeat(path, data): the file after the call.
save_heartbeat(data) == [exists |-> TRUE, complete |-> TRUE, data |-> data]

\* (now - t) / 86400 of lines 71-72: a quotient that is not truncated, kept
\* as numerator and denominator.
DaysSince(t, now) == [num |-> now - t, den |-> SecondsPerDay]

\* q >= n for a quotient q with a positive denominator.
QuotientAtLeast(q, n) == q.num >= n * q.den

\* IntOf with a fault: rounded up.
IntOfRoundedUp(q) == (q.num + q.den - 1) \div q.den

\* int(q): truncation towards zero.
IntOf(q) ==
    IF q.num >= 0 THEN q.num \div q.den ELSE -((-q.num) \div q.den)

\* HeartbeatDue with a fault: the boundary excluded.
HeartbeatDueAfter(hb, now) ==
    QuotientAtLeast(DaysSince(hb.start_time + 1, now), HeartbeatDays)

\* days_since_start >= 30 (line 74).
HeartbeatDue(hb, now) ==
    QuotientAtLeast(DaysSince(hb.start_time, now), HeartbeatDays)

\* reset_start_time with a fault: the change time is reset as well.
reset_start_time_and_change(hb, now) ==
    [hb EXCEPT !.start_time = now, !.last_ip_change = now]

\* reset_start_time with a fault: the record is left as loaded.
reset_start_time_forgotten(hb, now) == hb

\* heartbeat["start_time"] = now (line 86).
reset_start_time(hb, now) == [hb EXCEPT !.start_time = now]

\* The f-string of lines 75-79.
heartbeat_message(hb, now) ==
    << "Heartbeat: Script has been running for ",
       ToString(IntOf(DaysSince(hb.start_time, now))),
       " days.\nNo IP change in ",
       ToString(IntOf(DaysSince(hb.last_ip_change, now))),
       " days.\nTotal IP changes: ",
       ToString(hb.ip_change_count) >>

\* datetime.datetime.now().strftime("%m/%d/%Y"): one token per calendar day.
DateOf(t) == ToString(t \div SecondsPerDay)

\* checkin_message with a fault: the message without the address.
checkin_message_without_ip(date, public_ip) ==
    << "Public IP Check-In - ", date, "\n\n" >>

\* The f-string of line 147.
checkin_message(date, public_ip) ==
    << "Public IP Check-In - ", date, "\n\n" >> \o public_ip

\* Line 127.
test_message == << "Apprise Test: 5 minutes elapsed in verbose mode." >>

\* read_previous_ip with a fault: a missing file read as the address "a".
read_previous_ip_default_a(file) ==
    IF file.exists THEN Strip(file.content) ELSE <<"a">>

\* The previous address as lines 140-144 read it.
read_previous_ip(file) ==
    IF file.exists THEN Strip(file.content) ELSE <<>>

\* IpChanged with a fault: every resolved address counts as a change.
IpChangedAlways(public_ip, previous_ip) == TRUE

\* IpChanged with a fault: an empty address is never a change.
IpChangedUnlessEmpty(public_ip, previous_ip) ==
    public_ip # previous_ip /\ public_ip # <<>>

\* public_ip != previous_ip (line 146).
IpChanged(public_ip, previous_ip) == public_ip # previous_ip

\* record_change with a fault: the count left as it was.
record_change_without_count(hb, now) ==
    [hb EXCEPT !.last_ip_change = now]

\* Lines 155-156.
record_change(hb, now) ==
    [hb EXCEPT !.last_ip_change = now, !.ip_change_count = @ + 1]

\* WhileCondition with a fault: one more poll at exactly 300 seconds.
WhileConditionInclusive(elapsed) == elapsed <= VerboseWindow

\* WhileCondition with a fault: the loop stops one sleep early.
WhileConditionEarly(elapsed) == elapsed < VerboseWindow - SleepSeconds

\* The while condition of line 118.
WhileCondition(elapsed) == elapsed < VerboseWindow

\* AfterConfig with a fault: the heartbeat check left out.
AfterConfigWithoutHeartbeat(ok) == IF ok THEN "mode" ELSE "fatal"

\* Where main() goes once the configuration is read or is found unreadable
\* (lines 96-109).
AfterConfig(ok) == IF ok THEN "load_heartbeat" ELSE "fatal"

\* InVerboseBranch with a fault: the flag ignored, every run a normal run.
InVerboseBranchNever(verbose_mode) == FALSE

\* if verbose_mode (line 115).
InVerboseBranch(verbose_mode) == verbose_mode

\* IsNone with a fault: the test for None left out.
IsNoneNever(public_ip) == FALSE

\* public_ip is None (line 136).
IsNone(public_ip) == ~public_ip.ok

(* ------------------------------- state -------------------------------- *)

\* An entry of an invocation's trace: what it did, to what, with which text.
Ev(kind, what, body) == [kind |-> kind, what |-> what, body |-> body]

\* What one request of get_public_ip came to: the source, whether its try
\* block returned, and the body it returned.
Contact(source, o) ==
    [source |-> source, ok |-> Succeeds(o),
     body |-> IF Succeeds(o) THEN o.body ELSE <<>>]

\* The locals of main() before it starts. Besides the code's own locals:
\* the invocation's trace, the heartbeat record as loaded, the requests and
\* the return time of the latest get_public_ip call, the number of calls, and the files as they were when
\* the invocation started, when its heartbeat check ended, and before the
\* write that failed, if one did; which invocation of the behaviour this is,
\* and which other invocations held a loaded, not yet saved heartbeat
\* record when this one loaded its own.
FreshInvocation ==
    [ pc |-> "idle", verbose_mode |-> FALSE,
      heartbeat |-> NoRecord, now |-> 0, date |-> "",
      public_ip |-> Unavailable, previous_ip |-> <<>>,
      start_time |-> 0, elapsed |-> 0,
      trace |-> <<>>, loaded |-> NoRecord,
      contacted |-> <<>>, polls |-> 0, returned_at |-> 0,
      entry_ip |-> NoFile, entry_hb |-> NoHeartbeatFile,
      mid_ip |-> NoFile, mid_hb |-> NoHeartbeatFile,
      pre_ip |-> NoFile, pre_hb |-> NoHeartbeatFile,
      run |-> 0, loaded_beside |-> {} ]

Finished == {"idle", "done", "fatal"}

\* What the notifier has delivered so far, beyond the number of check-ins:
\* when the latest heartbeat notification and the one before it were sent
\* (-1 for none), and the address the latest check-in carried.
NoHistory ==
    [heartbeat_at |-> -1, previous_heartbeat_at |-> -1, last_checkin |-> <<>>]

Init ==
    /\ clock = 0
    /\ sched = 0
    /\ runs = 0
    /\ prev_ip_file = NoFile
    /\ heartbeat_file = NoHeartbeatFile
    /\ inv = [p \in Procs |-> FreshInvocation]
    /\ checkins_sent = 0
    /\ history = NoHistory

(* ------------------------------ actions ------------------------------- *)

\* The scheduler runs main(verbose) d seconds after it ran the previous
\* invocation, which has ended.
Start(p, verbose, d) ==
    /\ inv[p].pc \in Finished
    /\ runs < MaxInvocations
    /\ sched + d >= clock
    /\ runs' = runs + 1
    /\ clock' = sched + d
    /\ sched' = sched + d
    /\ inv' = [inv EXCEPT ![p] =
                 [FreshInvocation EXCEPT !.pc = "load_config",
                                         !.verbose_mode = verbose,
                                         !.entry_ip = prev_ip_file,
                                         !.entry_hb = heartbeat_file,
                                         !.run = runs + 1]]
    /\ UNCHANGED <<prev_ip_file, heartbeat_file, checkins_sent, history>>

\* The scheduler runs main(verbose) while another invocation is in progress.
StartOverlapping(p, verbose) ==
    /\ inv[p].pc \in Finished
    /\ \E q \in Procs \ {p} : inv[q].pc \notin Finished
    /\ runs < MaxInvocations
    /\ runs' = runs + 1
    /\ inv' = [inv EXCEPT ![p] =
                 [FreshInvocation EXCEPT !.pc = "load_config",
                                         !.verbose_mode = verbose,
                                         !.entry_ip = prev_ip_file,
                                         !.entry_hb = heartbeat_file,
                                         !.run = runs + 1]]
    /\ UNCHANGED <<clock, sched, prev_ip_file, heartbeat_file, checkins_sent,
                   history>>

\* Lines 96-102: a missing or malformed apprise_config.json ends main().
LoadConfig(p, ok) ==
    /\ inv[p].pc = "load_config"
    /\ inv' = [inv EXCEPT ![p].pc = AfterConfig(ok)]
    /\ UNCHANGED <<clock, sched, runs, prev_ip_file, heartbeat_file, checkins_sent,
                   history>>

\* The invocations other than p's that have loaded the heartbeat record and
\* have not saved it since.
HoldingUnsaved(p) ==
    { inv[q].run : q \in { q \in Procs \ {p} :
        /\ inv[q].pc \notin (Finished \cup {"load_config", "load_heartbeat"})
        /\ \A i \in DOMAIN inv[q].trace :
              ~(inv[q].trace[i].kind = "write"
                /\ inv[q].trace[i].what = "heartbeat.json") } }

\* Line 109.
LoadHeartbeat(p) ==
    /\ inv[p].pc = "load_heartbeat"
    /\ LET hb == load_heartbeat(heartbeat_file, clock)
       IN inv' = [inv EXCEPT ![p].pc = AfterLoad(heartbeat_file),
                             ![p].heartbeat = hb,
                             ![p].loaded = hb,
                             ![p].loaded_beside = HoldingUnsaved(p)]
    /\ UNCHANGED <<clock, sched, runs, prev_ip_file, heartbeat_file, checkins_sent,
                   history>>

\* Line 110.
ReadNow(p) ==
    /\ inv[p].pc = "read_now"
    /\ inv' = [inv EXCEPT ![p].pc = "handle_heartbeat", ![p].now = clock]
    /\ UNCHANGED <<clock, sched, runs, prev_ip_file, heartbeat_file, checkins_sent,
                   history>>

\* Lines 113 and 71-86: handle_heartbeat's test, notification and reset.
HandleHeartbeat(p) ==
    /\ inv[p].pc = "handle_heartbeat"
    /\ LET hb == inv[p].heartbeat
           now == inv[p].now
       IN IF HeartbeatDue(hb, now)
          THEN /\ inv' = [inv EXCEPT
                     ![p].pc = "save_fired",
                     ![p].heartbeat = reset_start_time(hb, now),
                     ![p].trace = @ \o
                         << Ev("heartbeat_check", "fired", <<>>),
                            Ev("notify", "Spectrum_PubIP Heartbeat",
                               heartbeat_message(hb, now)) >>]
               /\ history' = [history EXCEPT
                     !.heartbeat_at = now,
                     !.previous_heartbeat_at = history.heartbeat_at]
          ELSE /\ inv' = [inv EXCEPT
                     ![p].pc = "mode",
                     ![p].trace = Append(@, Ev("heartbeat_check", "quiet", <<>>)),
                     ![p].mid_ip = prev_ip_file,
                     ![p].mid_hb = heartbeat_file]
               /\ UNCHANGED history
    /\ UNCHANGED <<clock, sched, runs, prev_ip_file, heartbeat_file, checkins_sent>>

\* Line 87: save_heartbeat at the end of a heartbeat that fired.
SaveFiredHeartbeat(p) ==
    /\ inv[p].pc = "save_fired"
    /\ heartbeat_file' = save_heartbeat(inv[p].heartbeat)
    /\ inv' = [inv EXCEPT
            ![p].pc = "mode",
            ![p].trace = Append(@, Ev("write", "heartbeat.json", <<>>)),
            ![p].mid_ip = prev_ip_file,
            ![p].mid_hb = heartbeat_file']
    /\ UNCHANGED <<clock, sched, runs, prev_ip_file, checkins_sent, history>>

\* Invocation r calling get_public_ip. The value public_ip held before the
\* call is never read again (lines 119 and 135 assign it when the call
\* returns), so it is dropped here.
CallGetPublicIp(r) ==
    [r EXCEPT !.pc = "request_primary",
              !.public_ip = Unavailable,
              !.contacted = <<>>,
              !.polls = @ + 1,
              !.trace = Append(@, Ev("resolve", "get_public_ip", <<>>))]

\* The loop of line 118 with `elapsed`: another poll, or the test
\* notification.
LoopTest(r, elapsed) ==
    IF WhileCondition(elapsed)
    THEN CallGetPublicIp([r EXCEPT !.elapsed = elapsed])
    ELSE [r EXCEPT !.elapsed = elapsed, !.pc = "test_notify", !.contacted = <<>>]

\* Lines 115-119: verbose mode starts its clock and enters the loop.
VerboseBegin(p) ==
    /\ inv[p].pc = "mode"
    /\ InVerboseBranch(inv[p].verbose_mode)
    /\ inv' = [inv EXCEPT ![p] =
                 LoopTest([inv[p] EXCEPT !.start_time = clock], 0)]
    /\ UNCHANGED <<clock, sched, runs, prev_ip_file, heartbeat_file, checkins_sent,
                   history>>

\* Lines 133-135: normal mode takes the date and calls get_public_ip.
NormalBegin(p) ==
    /\ inv[p].pc = "mode"
    /\ ~InVerboseBranch(inv[p].verbose_mode)
    /\ inv' = [inv EXCEPT ![p] =
                 CallGetPublicIp([inv[p] EXCEPT !.date = DateOf(clock)])]
    /\ UNCHANGED <<clock, sched, runs, prev_ip_file, heartbeat_file, checkins_sent,
                   history>>

\* Lines 19-24 of get_public_ip: the primary source answers o after d seconds.
RequestPrimary(p, o, d) ==
    /\ inv[p].pc = "request_primary"
    /\ o.kind = "Timeout" => d = Timeout
    /\ clock' = clock + d
    /\ inv' = [inv EXCEPT
            ![p].pc = IF Succeeds(o) THEN "resolved" ELSE "request_secondary",
            ![p].public_ip = IF Succeeds(o) THEN Resolved(Strip(o.body)) ELSE @,
            ![p].contacted = Append(@, Contact("api.ipify.org", o)),
            ![p].returned_at = IF Succeeds(o) THEN clock' ELSE @]
    /\ UNCHANGED <<sched, runs, prev_ip_file, heartbeat_file, checkins_sent,
                   history>>

\* Lines 25-32 of get_public_ip: the backup source answers o after d seconds.
RequestSecondary(p, o, d) ==
    /\ inv[p].pc = "request_secondary"
    /\ o.kind = "Timeout" => d = Timeout
    /\ clock' = clock + d
    /\ inv' = [inv EXCEPT
            ![p].pc = "resolved",
            ![p].public_ip = IF Succeeds(o) THEN Resolved(Strip(o.body))
                             ELSE Unavailable,
            ![p].contacted = Append(@, Contact("ifconfig.me", o)),
            ![p].returned_at = clock']
    /\ UNCHANGED <<sched, runs, prev_ip_file, heartbeat_file, checkins_sent,
                   history>>

\* Lines 120-125 and the next test of line 118: log, sleep, measure, loop.
VerboseSleep(p) ==
    /\ inv[p].pc = "resolved"
    /\ InVerboseBranch(inv[p].verbose_mode)
    /\ clock' = clock + SleepSeconds
    /\ inv' = [inv EXCEPT ![p] =
                 LoopTest([inv[p] EXCEPT !.trace = Append(@, Ev("sleep", "", <<>>))],
                          clock' - inv[p].start_time)]
    /\ UNCHANGED <<sched, runs, prev_ip_file, heartbeat_file, checkins_sent,
                   history>>

\* Lines 127-132.
TestNotify(p) ==
    /\ inv[p].pc = "test_notify"
    /\ inv' = [inv EXCEPT
            ![p].pc = "done",
            ![p].trace = Append(@, Ev("notify", "Spectrum_PubIP Test", test_message))]
    /\ UNCHANGED <<clock, sched, runs, prev_ip_file, heartbeat_file, checkins_sent,
                   history>>

\* Lines 136-144: return on None, else read the previous address.
ReadPrevious(p) ==
    /\ inv[p].pc = "resolved"
    /\ ~InVerboseBranch(inv[p].verbose_mode)
    /\ IF IsNone(inv[p].public_ip)
       THEN inv' = [inv EXCEPT ![p].pc = "done"]
       ELSE inv' = [inv EXCEPT ![p].pc = "compare",
                               ![p].previous_ip = read_previous_ip(prev_ip_file)]
    /\ UNCHANGED <<clock, sched, runs, prev_ip_file, heartbeat_file, checkins_sent,
                   history>>

\* Lines 146-151: the comparison and the check-in notification.
NotifyChange(p) ==
    /\ inv[p].pc = "compare"
    /\ IF IpChanged(inv[p].public_ip.text, inv[p].previous_ip)
       THEN /\ inv' = [inv EXCEPT
                   ![p].pc = "write_ip",
                   ![p].trace = Append(@, Ev("notify", "Spectrum_PubIP",
                       checkin_message(inv[p].date, inv[p].public_ip.text)))]
            /\ checkins_sent' = checkins_sent + 1
            /\ history' = [history EXCEPT !.last_checkin = inv[p].public_ip.text]
       ELSE /\ inv' = [inv EXCEPT ![p].pc = "done"]
            /\ UNCHANGED <<checkins_sent, history>>
    /\ UNCHANGED <<clock, sched, runs, prev_ip_file, heartbeat_file>>

\* Lines 152-153.
WriteIp(p) ==
    /\ inv[p].pc = "write_ip"
    /\ prev_ip_file' = FileOf(inv[p].public_ip.text)
    /\ inv' = [inv EXCEPT
            ![p].pc = "save_changed",
            ![p].trace = Append(@, Ev("write", "PreviousIP.txt", <<>>))]
    /\ UNCHANGED <<clock, sched, runs, heartbeat_file, checkins_sent, history>>

\* Lines 155-157.
SaveChangedHeartbeat(p) ==
    /\ inv[p].pc = "save_changed"
    /\ LET hb == record_change(inv[p].heartbeat, inv[p].now)
       IN /\ heartbeat_file' = save_heartbeat(hb)
          /\ inv' = [inv EXCEPT
                  ![p].pc = "done",
                  ![p].heartbeat = hb,
                  ![p].trace = Append(@, Ev("write", "heartbeat.json", <<>>))]
    /\ UNCHANGED <<clock, sched, runs, prev_ip_file, checkins_sent, history>>

\* Invocation r ended by the OSError of a write to the file `name`.
WriteFailed(r, name) ==
    [r EXCEPT !.pc = "fatal",
              !.trace = Append(@, Ev("write_failed", name, <<>>)),
              !.pre_ip = prev_ip_file,
              !.pre_hb = heartbeat_file]

\* Line 87 raising OSError: at open(), or after open() has truncated.
FailSaveFiredHeartbeat(p, at_open) ==
    /\ inv[p].pc = "save_fired"
    /\ heartbeat_file' = failed_write(heartbeat_file, at_open, TruncatedHeartbeatFile)
    /\ inv' = [inv EXCEPT ![p] = WriteFailed(@, "heartbeat.json")]
    /\ UNCHANGED <<clock, sched, runs, prev_ip_file, checkins_sent, history>>

\* Lines 152-153 raising OSError.
FailWriteIp(p, at_open) ==
    /\ inv[p].pc = "write_ip"
    /\ prev_ip_file' = failed_write(prev_ip_file, at_open, Truncated)
    /\ inv' = [inv EXCEPT ![p] = WriteFailed(@, "PreviousIP.txt")]
    /\ UNCHANGED <<clock, sched, runs, heartbeat_file, checkins_sent, history>>

\* Line 157 raising OSError.
FailSaveChangedHeartbeat(p, at_open) ==
    /\ inv[p].pc = "save_changed"
    /\ heartbeat_file' = failed_write(heartbeat_file, at_open, TruncatedHeartbeatFile)
    /\ inv' = [inv EXCEPT ![p] = WriteFailed(@, "heartbeat.json")]
    /\ UNCHANGED <<clock, sched, runs, prev_ip_file, checkins_sent, history>>

(* --------------------------- specifications --------------------------- *)

\* One step of invocation p.
Step(p) ==
    \/ \E ok \in BOOLEAN : LoadConfig(p, ok)
    \/ LoadHeartbeat(p)
    \/ ReadNow(p)
    \/ HandleHeartbeat(p)
    \/ SaveFiredHeartbeat(p)
    \/ VerboseBegin(p)
    \/ NormalBegin(p)
    \/ \E o \in Outcomes, d \in RequestTimes : RequestPrimary(p, o, d)
    \/ \E o \in Outcomes, d \in RequestTimes : RequestSecondary(p, o, d)
    \/ VerboseSleep(p)
    \/ TestNotify(p)
    \/ ReadPrevious(p)
    \/ NotifyChange(p)
    \/ WriteIp(p)
    \/ SaveChangedHeartbeat(p)

\* Sequential invocations: each starts after the previous one has ended.
Next ==
    \/ \E verbose \in BOOLEAN, d \in Delays : Start(1, verbose, d)
    \/ Step(1)

Spec == Init /\ [][Next]_vars

\* One step of invocation p in which a write to a state file fails.
FailStep(p) ==
    \/ \E at_open \in BOOLEAN : FailSaveFiredHeartbeat(p, at_open)
    \/ \E at_open \in BOOLEAN : FailWriteIp(p, at_open)
    \/ \E at_open \in BOOLEAN : FailSaveChangedHeartbeat(p, at_open)

\* Sequential invocations on a disk whose writes may fail.
FaultNext ==
    \/ \E verbose \in BOOLEAN, d \in Delays : Start(1, verbose, d)
    \/ Step(1)
    \/ FailStep(1)

FaultSpec == Init /\ [][FaultNext]_vars

\* What the sources do while invocations overlap: refuse the connection, or
\* answer at once with one of two addresses.
OverlappingOutcomes ==
    { o \in Outcomes :
        \/ o.kind = "ConnectionError"
        \/ o.kind = "response" /\ o.status = 200 /\ o.body \in {<<"a">>, <<"b">>} }

\* One step of a normal-mode invocation p.
NormalStep(p) ==
    \/ \E ok \in BOOLEAN : LoadConfig(p, ok)
    \/ LoadHeartbeat(p)
    \/ ReadNow(p)
    \/ HandleHeartbeat(p)
    \/ SaveFiredHeartbeat(p)
    \/ NormalBegin(p)
    \/ \E o \in OverlappingOutcomes : RequestPrimary(p, o, 0)
    \/ \E o \in OverlappingOutcomes : RequestSecondary(p, o, 0)
    \/ ReadPrevious(p)
    \/ NotifyChange(p)
    \/ WriteIp(p)
    \/ SaveChangedHeartbeat(p)

\* Normal-mode invocations on the same files that may overlap: invocation 2
\* may start while invocation 1 is in progress.
OverlappingNext ==
    \/ \E d \in Delays :
          /\ runs < MaxOverlappingInvocations
          /\ inv[2].pc \in Finished
          /\ Start(1, FALSE, d)
    \/ runs < MaxOverlappingInvocations /\ StartOverlapping(2, FALSE)
    \/ \E p \in Procs : NormalStep(p)

OverlappingSpec == Init /\ [][OverlappingNext]_vars

\* Sequential invocations, MaxFairInvocations of them.
FairNext ==
    \/ \E verbose \in BOOLEAN, d \in Delays :
          runs < MaxFairInvocations /\ Start(1, verbose, d)
    \/ Step(1)

\* An invocation that has started keeps running: the interpreter takes its
\* next step, requests return within their timeout and sleeps end. Whether
\* the scheduler starts another invocation is left open.
FairSpec == Init /\ [][FairNext]_vars /\ WF_vars(Step(1))

(* ------------------------ vocabulary of the claims -------------------- *)

\* The invocation the sequential specification runs.
Me == inv[1]

\* Whether the text `body` contains the text `s`.
Contains(body, s) ==
    \E i \in 0..(Len(body) - Len(s)) : SubSeq(body, i + 1, i + Len(s)) = s

\* The places of a trace holding notifications, check-in notifications,
\* heartbeat notifications, test notifications, file writes, resolutions.
Notifications(tr) == { i \in DOMAIN tr : tr[i].kind = "notify" }
CheckIns(tr) == { i \in Notifications(tr) : tr[i].what = "Spectrum_PubIP" }
HeartbeatNotes(tr) == { i \in Notifications(tr) : tr[i].what = "Spectrum_PubIP Heartbeat" }
TestNotes(tr) == { i \in Notifications(tr) : tr[i].what = "Spectrum_PubIP Test" }
Writes(tr) == { i \in DOMAIN tr : tr[i].kind = "write" }
WritesOf(tr, name) == { i \in Writes(tr) : tr[i].what = name }
Resolutions(tr) == { i \in DOMAIN tr : tr[i].kind = "resolve" }
HeartbeatChecks(tr) == { i \in DOMAIN tr : tr[i].kind = "heartbeat_check" }

\* The change_count a heartbeat file stands for: 0 when there is no file.
StoredCount(file) == IF file.exists THEN file.data.ip_change_count ELSE 0

\* A heartbeat file that holds the record `data`.
HeartbeatFileHolding(data) == [exists |-> TRUE, complete |-> TRUE, data |-> data]

\* The LastAddress a file stands for: the empty string when there is no file.
StoredAddress(file) == IF file.exists THEN file.content ELSE <<>>

\* A normal-mode invocation that has ended normally having resolved an address.
NormalDoneResolved(r) ==
    r.pc = "done" /\ ~r.verbose_mode /\ r.polls = 1 /\ r.public_ip.ok

\* A normal-mode invocation that has ended normally, both sources having failed.
NormalDoneUnavailable(r) ==
    r.pc = "done" /\ ~r.verbose_mode /\ r.polls = 1 /\ ~r.public_ip.ok

\* What the heartbeat check of an invocation did, and nothing else: its
\* notification and its write of the heartbeat file if it fired, nothing if not.
OnlyHeartbeatEffects(r) ==
    /\ CheckIns(r.trace) = {}
    /\ TestNotes(r.trace) = {}
    /\ WritesOf(r.trace, "PreviousIP.txt") = {}
    /\ prev_ip_file = r.entry_ip
    /\ IF r.now - r.loaded.start_time >= 2592000
       THEN /\ Cardinality(HeartbeatNotes(r.trace)) = 1
            /\ Cardinality(Writes(r.trace)) = 1
            /\ heartbeat_file = HeartbeatFileHolding(
                                    [r.loaded EXCEPT !.start_time = r.now])
       ELSE /\ Notifications(r.trace) = {}
            /\ Writes(r.trace) = {}
            /\ heartbeat_file = r.entry_hb

(* ------------------------------- claims ------------------------------- *)

\* C1: a normal-mode invocation that starts with LastAddress = previous and
\* resolves a non-empty current # previous sends exactly one notification
\* whose body contains current, leaves the address file holding current, and
\* leaves the persisted change_count one above what it was.
C1_ChangeDetection ==
    LET r == Me
        current == r.public_ip.text
    IN (NormalDoneResolved(r) /\ current # <<>>
          /\ current # StoredAddress(r.entry_ip))
       => /\ Cardinality({ i \in Notifications(r.trace) :
                             Contains(r.trace[i].body, current) }) = 1
          /\ prev_ip_file = FileOf(current)
          /\ heartbeat_file.exists
          /\ heartbeat_file.data.ip_change_count = StoredCount(r.entry_hb) + 1

\* C1's case: an address file holding "a", the address "b" resolved.
C1_Witness ==
    /\ NormalDoneResolved(Me)
    /\ Me.entry_ip = FileOf(<<"a">>)
    /\ Me.public_ip.text = <<"b">>

\* C2 as stated: a normal-mode invocation that resolves the stored LastAddress
\* sends no notification and rewrites no file.
C2_Original ==
    LET r == Me
    IN (NormalDoneResolved(r) /\ r.public_ip.text = StoredAddress(r.entry_ip))
       => /\ Notifications(r.trace) = {}
          /\ Writes(r.trace) = {}
          /\ prev_ip_file = r.entry_ip
          /\ heartbeat_file = r.entry_hb

\* C2 as amended: a normal-mode invocation that resolves the stored
\* LastAddress sends no check-in notification and does not rewrite the address
\* file; it sends a notification (the heartbeat) and rewrites a file (the
\* heartbeat file, with start_time reset) exactly when its heartbeat check,
\* made before the address was resolved, fired.
C2_UnchangedAddress ==
    LET r == Me
    IN (NormalDoneResolved(r) /\ r.public_ip.text = StoredAddress(r.entry_ip))
       => OnlyHeartbeatEffects(r)

\* C2's case: the stored address resolved again, in an invocation whose
\* heartbeat fired.
C2_Witness ==
    /\ NormalDoneResolved(Me)
    /\ Me.entry_ip.exists
    /\ Me.public_ip.text = StoredAddress(Me.entry_ip)
    /\ Me.public_ip.text # <<>>
    /\ HeartbeatNotes(Me.trace) # {}

\* C3: with no address file, a normal-mode invocation that resolves a
\* non-empty address sends one check-in notification with the address in its
\* body and leaves the address file holding exactly that address and, the
\* heartbeat file being absent too, a change_count of 1 loaded as 0; one that
\* resolves the empty address sends no check-in and writes no file.
C3_FirstRun ==
    LET r == Me
        current == r.public_ip.text
    IN (NormalDoneResolved(r) /\ ~r.entry_ip.exists)
       => IF current # <<>>
          THEN /\ Cardinality(CheckIns(r.trace)) = 1
               /\ \A i \in CheckIns(r.trace) : Contains(r.trace[i].body, current)
               /\ prev_ip_file = FileOf(current)
               /\ ~r.entry_hb.exists =>
                    /\ r.loaded.ip_change_count = 0
                    /\ heartbeat_file.exists
                    /\ heartbeat_file.data.ip_change_count = 1
          ELSE /\ CheckIns(r.trace) = {}
               /\ Writes(r.trace) = {}
               /\ prev_ip_file = NoFile
               /\ heartbeat_file = r.entry_hb

\* C3's case: neither file exists and "a" is resolved.
C3_Witness ==
    /\ NormalDoneResolved(Me)
    /\ ~Me.entry_ip.exists
    /\ ~Me.entry_hb.exists
    /\ Me.public_ip.text = <<"a">>

\* C4: when handle_heartbeat has returned, it has sent a heartbeat
\* notification and reset start_time to now (in the record and in the file) if
\* and only if now - start_time >= 2,592,000; otherwise it has sent nothing,
\* the record is as loaded and the heartbeat file has not been written.
C4_HeartbeatThreshold ==
    LET r == Me
        fired == HeartbeatNotes(r.trace) # {}
    IN r.pc = "mode"
       => /\ fired <=> (r.now - r.loaded.start_time >= 2592000)
          /\ fired =>
               /\ Cardinality(Notifications(r.trace)) = 1
               /\ r.heartbeat = [r.loaded EXCEPT !.start_time = r.now]
               /\ heartbeat_file = HeartbeatFileHolding(r.heartbeat)
          /\ ~fired =>
               /\ Notifications(r.trace) = {}
               /\ r.heartbeat = r.loaded
               /\ Writes(r.trace) = {}
               /\ heartbeat_file = r.entry_hb

\* C4's case: the check made exactly 2,592,000 seconds after start_time.
C4_Witness ==
    /\ Me.pc = "mode"
    /\ Me.now - Me.loaded.start_time = 2592000
    /\ HeartbeatNotes(Me.trace) # {}

\* C4's other case: the check made one second earlier.
C4_WitnessBelow ==
    /\ Me.pc = "mode"
    /\ Me.now - Me.loaded.start_time = 2591999
    /\ HeartbeatNotes(Me.trace) = {}

\* C5 as stated: a normal-mode invocation in which both sources fail ends
\* normally having sent no notification and touched no file.
C5_Original ==
    LET r == Me
    IN NormalDoneUnavailable(r)
       => /\ Notifications(r.trace) = {}
          /\ Writes(r.trace) = {}
          /\ prev_ip_file = r.entry_ip
          /\ heartbeat_file = r.entry_hb

\* C5 as amended: a normal-mode invocation in which both sources fail ends
\* normally once get_public_ip has returned, and after its heartbeat check it
\* sends nothing and touches no file: no check-in notification, the address
\* file untouched, and a notification and a write of the heartbeat file only
\* from a heartbeat that fired before the address was resolved.
C5_ResolutionFailure ==
    LET r == Me
        bothFailed == Len(r.contacted) = 2 /\ ~r.contacted[1].ok /\ ~r.contacted[2].ok
    IN (~r.verbose_mode /\ bothFailed)
       => /\ r.pc \in {"resolved", "done"}
          /\ OnlyHeartbeatEffects(r)

\* C5's case: both sources failed in an invocation that has ended.
C5_Witness ==
    /\ NormalDoneUnavailable(Me)
    /\ Len(Me.contacted) = 2
    /\ Me.entry_ip.exists

\* Whether t is s without its leading and trailing whitespace.
IsTrimOf(t, s) ==
    \E i \in 1..(Len(s) + 1), j \in 0..Len(s) :
       /\ t = SubSeq(s, i, j)
       /\ \A k \in 1..(i - 1) : s[k] \in Whitespace
       /\ \A k \in (j + 1)..Len(s) : s[k] \in Whitespace
       /\ t # <<>> => (t[1] \notin Whitespace /\ t[Len(t)] \notin Whitespace)

\* C6: when get_public_ip has returned, it has contacted the primary source
\* once and first, the secondary source once if the primary failed and not at
\* all if it succeeded, it returns None if and only if both failed, and
\* otherwise the trimmed body of the first source that succeeded.
C6_Fallback ==
    LET r == Me
        c == r.contacted
    IN r.pc = "resolved"
       => /\ Len(c) \in {1, 2}
          /\ c[1].source = "api.ipify.org"
          /\ Len(c) = 2 <=> ~c[1].ok
          /\ Len(c) = 2 => c[2].source = "ifconfig.me"
          /\ ~r.public_ip.ok <=> (Len(c) = 2 /\ ~c[1].ok /\ ~c[2].ok)
          /\ r.public_ip.ok =>
               LET first == CHOOSE i \in DOMAIN c :
                              c[i].ok /\ \A j \in 1..(i - 1) : ~c[j].ok
               IN IsTrimOf(r.public_ip.text, c[first].body)

\* C6's case: the primary failed and the secondary answered " a\n".
C6_Witness ==
    /\ Me.pc = "resolved"
    /\ Len(Me.contacted) = 2
    /\ Me.contacted[2].ok
    /\ Me.contacted[2].body = <<" ", "a", "\n">>
    /\ Me.public_ip = Resolved(<<"a">>)

\* The places of main() before its heartbeat check.
BeforeHeartbeatCheck == {"idle", "load_config", "load_heartbeat", "read_now", "handle_heartbeat"}

\* C7: an invocation that got past the configuration has made exactly one
\* heartbeat check once it is past handle_heartbeat and none before, the check
\* is the first thing it does, and its heartbeat notification precedes every
\* address resolution, check-in notification and test notification.
C7_HeartbeatOnceFirst ==
    LET r == Me
        tr == r.trace
    IN /\ r.pc \in BeforeHeartbeatCheck => tr = <<>>
       /\ r.pc \notin (BeforeHeartbeatCheck \cup {"fatal"})
            => Cardinality(HeartbeatChecks(tr)) = 1
       /\ tr # <<>> =>
            /\ tr[1].kind = "heartbeat_check"
            /\ Cardinality(HeartbeatChecks(tr)) = 1
            /\ Cardinality(HeartbeatNotes(tr)) <= 1
            /\ \A h \in HeartbeatNotes(tr) :
                 \A i \in Resolutions(tr) \cup CheckIns(tr) \cup TestNotes(tr) : h < i

\* C7's case: a verbose run whose heartbeat fired, ended.
C7_Witness ==
    /\ Me.pc = "done"
    /\ Me.verbose_mode
    /\ HeartbeatNotes(Me.trace) # {}
    /\ TestNotes(Me.trace) # {}

\* C8: past its heartbeat check, a verbose invocation sends no check-in
\* notification and leaves the address file and the heartbeat file, and the
\* last_ip_change and ip_change_count it loaded, as the heartbeat check left
\* them.
C8_DiagnosticNoChangeDetection ==
    LET r == Me
    IN (r.verbose_mode /\ r.pc \notin (BeforeHeartbeatCheck \cup {"save_fired", "mode", "fatal"}))
       => /\ CheckIns(r.trace) = {}
          /\ WritesOf(r.trace, "PreviousIP.txt") = {}
          /\ prev_ip_file = r.mid_ip
          /\ heartbeat_file = r.mid_hb
          /\ r.heartbeat.last_ip_change = r.loaded.last_ip_change
          /\ r.heartbeat.ip_change_count = r.loaded.ip_change_count

\* C8's case: a verbose run ended whose last poll resolved an address other
\* than the stored one.
C8_Witness ==
    /\ Me.pc = "done"
    /\ Me.verbose_mode
    /\ prev_ip_file.exists
    /\ Me.public_ip.ok
    /\ Me.public_ip.text # <<>>
    /\ Me.public_ip.text # StoredAddress(prev_ip_file)

\* The kinds of the entries of a trace from place i on.
RECURSIVE KindsFrom(_, _)
KindsFrom(tr, i) ==
    IF i > Len(tr) THEN <<>> ELSE <<tr[i].kind>> \o KindsFrom(tr, i + 1)

\* n times resolve, sleep.
RECURSIVE Iterations(_)
Iterations(n) ==
    IF n = 0 THEN <<>> ELSE <<"resolve", "sleep">> \o Iterations(n - 1)

\* What a verbose invocation has done since it entered the loop.
LoopKinds(r) ==
    KindsFrom(r.trace, 1 + Cardinality(HeartbeatChecks(r.trace))
                         + Cardinality(HeartbeatNotes(r.trace))
                         + Cardinality(Writes(r.trace)))

\* C9 as stated, its timing: the k-th poll of the loop started at T is made
\* at T + 90 (k - 1).
C9_Original ==
    (Me.verbose_mode /\ Me.pc = "request_primary")
       => clock = Me.start_time + 90 * (Me.polls - 1)

\* The safety part of C9 as amended.
DiagnosticLoopSafe ==
    LET r == Me
    IN r.verbose_mode =>
        /\ r.pc = "request_primary" =>
             /\ r.polls = 1 => clock = r.start_time
             /\ r.polls > 1 => clock = r.returned_at + 90
             /\ clock >= r.start_time + 90 * (r.polls - 1)
             /\ r.elapsed = clock - r.start_time
             /\ r.elapsed < 300
             /\ LoopKinds(r) = Iterations(r.polls - 1) \o <<"resolve">>
        /\ r.pc = "test_notify" =>
             /\ r.elapsed = clock - r.start_time
             /\ r.elapsed >= 300
             /\ LoopKinds(r) = Iterations(r.polls)
        /\ r.pc = "done" =>
             /\ r.elapsed >= 300
             /\ LoopKinds(r) = Iterations(r.polls) \o <<"notify">>
             /\ Cardinality(TestNotes(r.trace)) = 1
        /\ r.pc # "done" => TestNotes(r.trace) = {}

\* C9 as amended: the loop started at T polls at T and then 90 seconds after
\* each resolve has returned (at T + 90 (k - 1) or later for the k-th poll),
\* one resolve then one 90-second sleep per iteration; it polls only while the
\* elapsed time is below 300, terminates, and then sends exactly one test
\* notification, after the last poll.
C9_DiagnosticLoop ==
    /\ []DiagnosticLoopSafe
    /\ (Me.verbose_mode /\ Me.pc = "mode") ~> (Me.verbose_mode /\ Me.pc = "done")

\* C9's case: a verbose run ended after three polls of 10 seconds each.
C9_Witness ==
    /\ Me.verbose_mode
    /\ Me.pc = "done"
    /\ Me.polls = 3
    /\ Me.elapsed = 300

\* C9's other case: a verbose run ended after four polls, resolves having
\* taken time.
C9_WitnessFour ==
    /\ Me.verbose_mode
    /\ Me.pc = "done"
    /\ Me.polls = 4
    /\ Me.elapsed > 360

\* An invocation that has detected an address change.
Detected(r) ==
    /\ ~r.verbose_mode
    /\ r.pc \in {"write_ip", "save_changed", "done"}
    /\ r.public_ip.ok
    /\ r.public_ip.text # StoredAddress(r.entry_ip)

\* C10: starting with no heartbeat file, the persisted change_count never
\* falls below what it was when the running invocation started, is 1 above it
\* when an invocation that detected a change has ended and equal to it when
\* any other has, and between invocations equals the number of check-in
\* notifications sent so far (during one it is that number or, from the
\* notification to the save, one less).
C10_ChangeCount ==
    LET r == Me
        count == StoredCount(heartbeat_file)
    IN /\ count >= StoredCount(r.entry_hb)
       /\ count \in {checkins_sent - 1, checkins_sent}
       /\ r.pc \in Finished =>
            /\ count = checkins_sent
            /\ count = StoredCount(r.entry_hb) + (IF Detected(r) THEN 1 ELSE 0)

\* C10's case: an invocation that detected the second change has ended.
C10_Witness ==
    /\ Me.pc = "done"
    /\ Detected(Me)
    /\ checkins_sent = 2
    /\ StoredCount(heartbeat_file) = 2

\* The number of heartbeat notifications in a trace.
HeartbeatsSent(tr) == Cardinality(HeartbeatNotes(tr))

\* C11: the steps of the heartbeat check leave last_ip_change and
\* ip_change_count as they are, in the record held and in the file, and
\* neither create nor remove the file; the start_time of the record an
\* invocation holds changes in exactly the step that sends a heartbeat
\* notification, and becomes now; the start_time of an existing file changes
\* only in the save that follows that notification; the last_ip_change of an
\* existing file changes only in the save of an invocation that detected an
\* address change.
C11_HeartbeatFrame ==
    [][ LET r == inv[1]
            after == inv'[1]
            file == heartbeat_file
            written == heartbeat_file'
        IN /\ r.pc \in {"handle_heartbeat", "save_fired"} =>
                /\ after.heartbeat.last_ip_change = r.heartbeat.last_ip_change
                /\ after.heartbeat.ip_change_count = r.heartbeat.ip_change_count
                /\ written.exists = file.exists
                /\ written.data.last_ip_change = file.data.last_ip_change
                /\ written.data.ip_change_count = file.data.ip_change_count
           /\ r.pc \notin (Finished \cup {"load_config", "load_heartbeat"}) =>
                /\ (after.heartbeat.start_time # r.heartbeat.start_time)
                      <=> (HeartbeatsSent(after.trace) > HeartbeatsSent(r.trace))
                /\ after.heartbeat.start_time \in {r.heartbeat.start_time, r.now}
           /\ (file.exists /\ written.data.start_time # file.data.start_time) =>
                /\ r.pc = "save_fired"
                /\ HeartbeatsSent(r.trace) = 1
                /\ written.data.start_time = r.now
           /\ (file.exists /\ written.data.last_ip_change # file.data.last_ip_change) =>
                /\ r.pc = "save_changed"
                /\ Detected(r)
                /\ CheckIns(r.trace) # {}
      ]_vars

\* C11's case: a heartbeat has fired and has been saved over a record that
\* counts a change detected earlier.
C11_Witness ==
    /\ Me.pc = "mode"
    /\ HeartbeatsSent(Me.trace) = 1
    /\ heartbeat_file.data.start_time = Me.now
    /\ heartbeat_file.data.start_time # Me.entry_hb.data.start_time
    /\ heartbeat_file.data.ip_change_count = 1
    /\ heartbeat_file.data.last_ip_change = Me.entry_hb.data.last_ip_change

\* floor(seconds / 86400).
FloorDays(seconds) == seconds \div 86400

\* The heartbeat notification of an invocation that sent one.
HeartbeatNote(r) == r.trace[CHOOSE i \in HeartbeatNotes(r.trace) : TRUE]

\* C12: the message of a heartbeat that fired gives floor((now - start_time)
\* / 86400), floor((now - last_ip_change) / 86400) and ip_change_count, all
\* three of the record as loaded, which is the one in the file when the
\* invocation started; an address change detected later in the same
\* invocation leaves the file's count one above the count in the message.
C12_HeartbeatMessage ==
    LET r == Me
    IN HeartbeatNotes(r.trace) # {} =>
         LET body == HeartbeatNote(r).body
         IN /\ Len(body) = 6
            /\ body[2] = ToString(FloorDays(r.now - r.loaded.start_time))
            /\ body[4] = ToString(FloorDays(r.now - r.loaded.last_ip_change))
            /\ body[6] = ToString(r.loaded.ip_change_count)
            /\ r.loaded = r.entry_hb.data
            /\ r.entry_hb.exists
            /\ (r.pc = "done" /\ Detected(r)) =>
                  ToString(StoredCount(heartbeat_file) - 1) = body[6]

\* C12's case: a heartbeat fired 30 days and 3599 seconds after start_time
\* and 30 days less a second after the second change, and a third change was
\* detected and saved after it.
C12_Witness ==
    /\ Me.pc = "done"
    /\ Detected(Me)
    /\ HeartbeatNotes(Me.trace) # {}
    /\ HeartbeatNote(Me).body[2] = "30"
    /\ HeartbeatNote(Me).body[4] = "29"
    /\ HeartbeatNote(Me).body[6] = "2"
    /\ Me.now - Me.loaded.start_time = 30 * 86400 + 3599
    /\ StoredCount(heartbeat_file) = 3

\* When the latest heartbeat notification sent before the running invocation
\* started was sent (-1 for none).
HeartbeatBefore(r) ==
    IF HeartbeatNotes(r.trace) # {}
    THEN history.previous_heartbeat_at
    ELSE history.heartbeat_at

\* C13: over sequential invocations, a heartbeat notification comes at
\* least 2,592,000 seconds after the one before it, and an invocation that
\* starts less than 2,592,000 seconds after the latest heartbeat notification
\* sends none; the save that follows a heartbeat notification leaves
\* start_time in the file at the time of that notification.
C13_NoRefire ==
    LET r == Me
        before == HeartbeatBefore(r)
    IN /\ history.previous_heartbeat_at >= 0 =>
            history.heartbeat_at - history.previous_heartbeat_at >= 2592000
       /\ (r.pc # "idle" /\ before >= 0 /\ sched - before < 2592000) =>
            HeartbeatNotes(r.trace) = {}
       /\ (before >= 0 /\ HeartbeatNotes(r.trace) # {}) =>
            r.now - before >= 2592000
       /\ (history.heartbeat_at >= 0 /\ r.pc \in Finished) =>
            /\ heartbeat_file.exists
            /\ heartbeat_file.data.start_time = history.heartbeat_at

\* C13's cases: a second heartbeat has fired, exactly 30 days after the
\* first; an invocation started a second less than 30 days after a heartbeat
\* has ended.
C13_Witness ==
    /\ Me.pc = "done"
    /\ HeartbeatNotes(Me.trace) # {}
    /\ history.previous_heartbeat_at >= 0
    /\ history.heartbeat_at - history.previous_heartbeat_at = 2592000

C13_WitnessQuiet ==
    /\ Me.pc = "done"
    /\ HeartbeatNotes(Me.trace) = {}
    /\ history.heartbeat_at >= 0
    /\ sched - history.heartbeat_at = 2592000 - 1

\* 1 for TRUE, 0 for FALSE.
Count(b) == IF b THEN 1 ELSE 0

C14_WitnessNoWrite ==
    /\ NormalDoneResolved(Me)
    /\ ~Detected(Me)
    /\ Me.entry_ip.exists
    /\ Writes(Me.trace) = {}
    /\ prev_ip_file = Me.entry_ip
    /\ heartbeat_file = Me.entry_hb

\* The address a check-in notification carries: its body after the heading,
\* the date and the blank line.
AddressIn(body) == SubSeq(body, 4, Len(body))

\* C15: between sequential invocations the address file is absent if no
\* check-in notification was ever sent and otherwise holds exactly the
\* address carried by the latest one; within an invocation a write of the
\* address file comes straight after the check-in notification, whose
\* address it stores, and once the invocation has ended a write of the
\* heartbeat file has come straight after it.
C15_LastNotifiedAddress ==
    LET r == Me
        tr == r.trace
    IN /\ r.pc \in Finished =>
            IF checkins_sent = 0
            THEN ~prev_ip_file.exists
            ELSE /\ prev_ip_file.exists
                 /\ prev_ip_file.content = history.last_checkin
       /\ \A c \in CheckIns(tr) : AddressIn(tr[c].body) = history.last_checkin
       /\ \A w \in WritesOf(tr, "PreviousIP.txt") :
            /\ w - 1 \in CheckIns(tr)
            /\ prev_ip_file.content = AddressIn(tr[w - 1].body)
            /\ r.pc = "done" => w + 1 \in WritesOf(tr, "heartbeat.json")
       /\ \A c \in CheckIns(tr) :
            r.pc = "done" => c + 1 \in WritesOf(tr, "PreviousIP.txt")

\* C15's case: the second check-in was sent by an earlier invocation, and a
\* later one that detected no change has ended.
C15_Witness ==
    /\ Me.pc = "done"
    /\ checkins_sent = 2
    /\ CheckIns(Me.trace) = {}
    /\ Me.public_ip.ok
    /\ prev_ip_file = [exists |-> TRUE, content |-> history.last_checkin]
    /\ history.last_checkin # <<>>

\* C15's order: notification, address file, heartbeat file.
C15_WitnessOrder ==
    /\ Me.pc = "done"
    /\ \E c \in CheckIns(Me.trace) :
          /\ c + 1 \in WritesOf(Me.trace, "PreviousIP.txt")
          /\ c + 2 \in WritesOf(Me.trace, "heartbeat.json")

\* An invocation ended by a write to a state file that failed.
EndedByFailedWrite(r) ==
    /\ r.pc = "fatal"
    /\ \E i \in DOMAIN r.trace : r.trace[i].kind = "write_failed"

\* C16: when a write to a state file fails the invocation ends with a fatal
\* error, and both state files hold what they held before the write was
\* attempted.
C16_Original ==
    LET r == Me
    IN /\ (\E i \in DOMAIN r.trace : r.trace[i].kind = "write_failed") =>
            r.pc = "fatal"
       /\ EndedByFailedWrite(r) =>
            /\ prev_ip_file = r.pre_ip
            /\ heartbeat_file = r.pre_hb

\* What C16's case leaves behind: a heartbeat file that existed and held a
\* record holds no complete document after the failed save.
C16_HeartbeatFileLost ==
    /\ EndedByFailedWrite(Me)
    /\ Me.pre_hb.complete
    /\ heartbeat_file.exists
    /\ ~heartbeat_file.complete

\* Invocations 1 and 2 each loaded the heartbeat record while the other held
\* a record it had loaded and not yet saved, or the other way round: both
\* loaded before either saved.
BothLoadedBeforeEitherSaved ==
    \/ inv[2].run \in inv[1].loaded_beside
    \/ inv[1].run \in inv[2].loaded_beside

\* Two invocations that overlapped as above have both ended, each having
\* sent a check-in notification and saved the heartbeat record.
BothDetected ==
    /\ BothLoadedBeforeEitherSaved
    /\ \A p \in Procs :
          /\ inv[p].pc = "done"
          /\ Cardinality(CheckIns(inv[p].trace)) = 1
          /\ WritesOf(inv[p].trace, "heartbeat.json") # {}

\* C17: nothing keeps two invocations from holding the heartbeat record at
\* once, and when two normal-mode invocations have both loaded it before
\* either saved and both have detected and notified a change, the file ends
\* with the count one of them loaded plus 1 (the count both loaded plus 1,
\* not plus 2, when they loaded the same), which is below the number of
\* check-in notifications sent. The count in the file never exceeds that
\* number.
C17_LostUpdate ==
    LET first == inv[1].loaded.ip_change_count
        second == inv[2].loaded.ip_change_count
    IN /\ StoredCount(heartbeat_file) <= checkins_sent
       /\ BothDetected =>
             /\ StoredCount(heartbeat_file) \in {first + 1, second + 1}
             /\ StoredCount(heartbeat_file) < checkins_sent
             /\ checkins_sent >= first + 2
             /\ checkins_sent >= second + 2

\* C17's case: starting with no files, two overlapping invocations have each
\* notified a change and the file counts one.
C17_Witness ==
    /\ BothDetected
    /\ inv[1].loaded.ip_change_count = 0
    /\ inv[2].loaded.ip_change_count = 0
    /\ checkins_sent = 2
    /\ StoredCount(heartbeat_file) = 1

C19_DiagnosticBounds ==
    LET r == Me
    IN r.verbose_mode =>
         /\ r.polls <= 4
         /\ r.pc \in {"resolved", "request_secondary"} =>
               clock - r.start_time <= 90 * (r.polls - 1) + 10 * r.polls
         /\ r.pc \in {"test_notify", "done"} =>
               /\ r.polls \in {3, 4}
               /\ clock - r.start_time >= 300
               /\ clock - r.start_time <= 400
               /\ r.pc = "done" => Cardinality(TestNotes(r.trace)) = 1

\* C19's cases: three polls of 10 seconds each, the notification 300
\* seconds after the loop began; four polls, the notification after 395.
C19_Witness ==
    /\ Me.verbose_mode
    /\ Me.pc = "done"
    /\ Me.polls = 3
    /\ clock - Me.start_time = 300

C19_WitnessFour ==
    /\ Me.verbose_mode
    /\ Me.pc = "done"
    /\ Me.polls = 4
    /\ clock - Me.start_time = 395

====
